---- MODULE Spec2Model ----
(***************************************************************************)
(* Zamerzika: a pitch-synchronous freeze effect (src/src/lib.rs).          *)
(*                                                                         *)
(* The engine keeps, per channel, an input ring (rolling history) and an   *)
(* output ring (the captured loop).  A MIDI note-on captures one period of *)
(* the input into the output ring and loops it; the matching note-off      *)
(* cross-fades back to the live input over XFADE_FRAMES samples.           *)
(*                                                                         *)
(* Representation.  Option<u8> is <<>> (None) or <<p>> (Some(p)).  A Vec   *)
(* is a sequence, so the slot the code calls data[i] is data[i + 1] here.  *)
(* An f64 sample is a fixed-point integer, One standing for 1.0; halving   *)
(* a value that is not a multiple of 2 truncates (f64 rounds, far below    *)
(* the resolution used here).  A panic of the Rust code (index out of      *)
(* bounds, arithmetic overflow in a build with overflow checks) sets       *)
(* panicked, after which nothing runs.                                     *)
(***************************************************************************)
EXTENDS Integers, Sequences, FiniteSets, TLC

CHANNELS == 2
MAX_WINDOW_SIZE == 11742
XFADE_FRAMES == 64

Channels == 0 .. (CHANNELS - 1)

\* 1.0 in the fixed-point representation of f64 samples.
One == 2 ^ 12

None == <<>>
Some(x) == <<x>>

(***************************************************************************)
(* RingBuffer                                                              *)
(***************************************************************************)

RingBuffer_default ==
    [read_cursor |-> 0, write_cursor |-> 0, len |-> 0, data |-> <<>>]

\* Vec indexing data[i] panics unless i < data.len().
in_bounds(rb, i) == i >= 0 /\ i < Len(rb.data)

\* write, wrapping the cursor one slot early.
write_wraps_early(rb, sample) ==
    LET w == rb.write_cursor + 1
    IN  [rb EXCEPT !.data[rb.write_cursor + 1] = sample,
                   !.write_cursor = IF w + 1 >= rb.len THEN 0 ELSE w]

write(rb, sample) ==
    LET w == rb.write_cursor + 1
    IN  [rb EXCEPT !.data[rb.write_cursor + 1] = sample,
                   !.write_cursor = IF w >= rb.len THEN 0 ELSE w]

read_result(rb) == rb.data[rb.read_cursor + 1]

\* read, moving the cursor on by two.
read_skipping(rb) ==
    LET r == rb.read_cursor + 2
    IN  [rb EXCEPT !.read_cursor = IF r >= rb.len THEN 0 ELSE r]

\* read, zeroing the slot it returns.
read_consuming(rb) ==
    LET r == rb.read_cursor + 1
    IN  [rb EXCEPT !.data[rb.read_cursor + 1] = 0,
                   !.read_cursor = IF r >= rb.len THEN 0 ELSE r]

read(rb) ==
    LET r == rb.read_cursor + 1
    IN  [rb EXCEPT !.read_cursor = IF r >= rb.len THEN 0 ELSE r]

resize(rb, new_len, value) ==
    [read_cursor  |-> 0,
     write_cursor |-> 0,
     len          |-> new_len,
     data         |-> [i \in 1 .. new_len |->
                          IF i <= Len(rb.data) THEN rb.data[i] ELSE value]]

\* 2^64 modulo len, for the wrapping usize subtraction (len < 46341).
pow2_64_mod(len) ==
    LET a == (2 ^ 16) % len
        b == (a * a) % len
    IN  (b * b) % len

\* end + len - window_size is below zero: a panic with overflow checks,
\* a wrap modulo 2^64 without.
open_window_overflows(rb, window_size) ==
    rb.write_cursor + rb.len - window_size < 0

\* open_window, one sample short of the window.
open_window_short(rb, window_size) ==
    [rb EXCEPT !.read_cursor =
        (rb.write_cursor + rb.len - window_size + 1) % rb.len]

open_window(rb, window_size) ==
    LET end == rb.write_cursor
        len == rb.len
        diff == end + len - window_size
        start == IF diff >= 0
                 THEN diff % len
                 ELSE (pow2_64_mod(len) + (diff % len)) % len
    IN  [rb EXCEPT !.read_cursor = start]

\* 0.5 * x
half(x) == x \div 2

\* The body of the loop, blending with the next sample instead of the
\* previous one.
smooth_step_with_next(data, i, len) ==
    LET current == i % len
        next == (i + 1) % len
    IN  [data EXCEPT ![current + 1] =
            half(data[current + 1] + data[next + 1])]

\* The body of the loop of smooth, for index i.
smooth_step(data, i, len) ==
    LET current == i % len
        previous == (i - 1) % len
    IN  [data EXCEPT ![current + 1] =
            half(data[current + 1] + data[previous + 1])]

\* for i in first..stop, in increasing order.  The range is split in two
\* and the first half is evaluated before the second (bound through a
\* one-element set), so that the evaluation does not nest once per sample;
\* the other loops below are written the same way.
RECURSIVE smooth_loop(_, _, _, _)
smooth_loop(data, first, stop, len) ==
    IF first >= stop
    THEN data
    ELSE IF first + 1 = stop
         THEN smooth_step(data, first, len)
         ELSE LET mid == (first + stop) \div 2
              IN  CHOOSE r \in {smooth_loop(d, mid, stop, len) :
                                   d \in {smooth_loop(data, first, mid, len)}} : TRUE

\* The larger of the two instead of the smaller.
larger(a, b) == IF a <= b THEN b ELSE a

min(a, b) == IF a <= b THEN a ELSE b

\* smooth, blending one sample more than depth.
smooth_one_more(rb, depth) ==
    LET d == min(depth + 1, rb.len)
        offset == rb.read_cursor + rb.len
    IN  [rb EXCEPT !.data = smooth_loop(rb.data, offset, offset + d, rb.len)]

smooth(rb, depth) ==
    LET d == min(depth, rb.len)
        offset == rb.read_cursor + rb.len
    IN  [rb EXCEPT !.data = smooth_loop(rb.data, offset, offset + d, rb.len)]

(***************************************************************************)
(* midi_pitch_to_freq and the window size                                  *)
(*                                                                         *)
(* exp2((pitch - 69) / 12) * 440 is kept as a mantissa and a binary        *)
(* exponent: with pitch - 69 = 12 * octave + semitone, the frequency is    *)
(* 440 * 2^(semitone/12) * 2^octave, and 2^(semitone/12) comes from a      *)
(* table scaled by 2^20.                                                   *)
(***************************************************************************)

A4_PITCH == 69
A4_FREQ == 440

\* The binary digits after the point of the SemitoneRatio table.
FreqScaleBits == 16 + 4

\* round(2^(k/12) * 2^20), k = 0 .. 11
SemitoneRatio ==
    <<1048576, 1110928, 1176987, 1246974, 1321123, 1399681,
      1482910, 1571089, 1664511, 1763488, 1868350, 1979448>>

\* pitch as i8
as_i8(pitch) == IF pitch >= 128 THEN pitch - 256 ELSE pitch

\* floor division for a negative numerator too
floor_div(a, b) == IF a >= 0 THEN a \div b ELSE -(((-a) + b - 1) \div b)

midi_pitch_to_freq(pitch) ==
    LET d == as_i8(pitch) - A4_PITCH
        octave == floor_div(d, 12)
        semitone == d - 12 * octave
    IN  [mant |-> A4_FREQ * SemitoneRatio[semitone + 1], exp |-> octave]

\* One more binary digit of the quotient qr[1] (remainder qr[2]) of a
\* division by d.
div_bit(qr, d) ==
    IF 2 * qr[2] >= d
    THEN <<2 * qr[1] + 1, 2 * qr[2] - d>>
    ELSE <<2 * qr[1], 2 * qr[2]>>

\* n more binary digits.
RECURSIVE div_bits(_, _, _)
div_bits(qr, d, n) ==
    IF n = 0
    THEN qr
    ELSE IF n = 1
         THEN div_bit(qr, d)
         ELSE CHOOSE r \in {div_bits(h, d, n - n \div 2) :
                              h \in {div_bits(qr, d, n \div 2)}} : TRUE

\* (sample_rate / midi_pitch_to_freq(pitch)).round() as usize,
\* for a sample rate that is a whole number of Hz
window_size_for(sample_rate, pitch) ==
    LET f == midi_pitch_to_freq(pitch)
        qr == div_bits(<<sample_rate \div f.mant, sample_rate % f.mant>>,
                       f.mant, FreqScaleBits - f.exp)
    IN  IF 2 * qr[2] >= f.mant THEN qr[1] + 1 ELSE qr[1]

(***************************************************************************)
(* The engine                                                              *)
(***************************************************************************)

VARIABLES
    sample_rate,      \* Zamerzika.sample_rate, Hz
    note,             \* Zamerzika.note
    input,            \* Zamerzika.input, one ring per channel
    output,           \* Zamerzika.output, one ring per channel
    window_size,      \* Zamerzika.window_size
    xfade_countdown,  \* Zamerzika.xfade_countdown, per channel
    panicked,         \* the plugin has panicked
    frames,           \* samples per channel of the process call under way, 0 if none
    done,             \* process_sample calls made so far in that call
    last,             \* the operation that ran last, with its arguments and result
    mark,             \* the last process_events call that changed the engine: its events,
                      \* the note held and the countdowns before it, whether samples
                      \* were processed before it
    inlog,            \* per channel, every sample given to process_sample so far
    outlog,           \* per channel, what process_sample returned since that call
    ncalls,           \* process calls so far
    nevents,          \* calls of process_events and set_sample_rate that changed the engine
    rb,               \* RingBuffer exercised on its own (SpecRing)
    ring,             \* what was done to rb since its last resize
    wc                \* a window-size computation on its own (SpecWindow)

engine == <<sample_rate, note, input, output, window_size, xfade_countdown>>

host == <<panicked, frames, done, last, mark, inlog, outlog, ncalls, nevents>>

vars == <<engine, host, rb, ring, wc>>

\* Bounds of the exploration.
MaxCalls == 3
MaxEvents == 3

\* Spec: short blocks and short loops (window sizes 0, 4, 5 and 6).
Pitches == {120, 127}
Rates == {4000, 44100}
BlockSizes == {2}

\* SpecLong: blocks longer than the crossfade and a loop longer than the
\* smoothed region (window size 65 at 48 kHz).
LongPitches == {78}
LongBlockSizes == {XFADE_FRAMES + 2}

NOTE_OFF == 128
NOTE_ON == 144
OTHER_STATUS == 176

MidiEvent(status, data1) == [kind |-> "Midi", data |-> <<status, data1>>]
SysExEvent == [kind |-> "SysEx", data |-> <<>>]

NoteOn(pitch) == MidiEvent(NOTE_ON, pitch)
NoteOff(pitch) == MidiEvent(NOTE_OFF, pitch)

NoteEvents(pitches) ==
    {MidiEvent(s, p) : s \in {NOTE_OFF, NOTE_ON}, p \in pitches}

Events == NoteEvents(Pitches) \cup {MidiEvent(OTHER_STATUS, 7), SysExEvent}

\* What one process_events call delivers.
Batches == {<<e>> : e \in Events}

LongBatches == {<<e>> : e \in NoteEvents(LongPitches)}

\* The input signal: a ramp, different on each channel, so that every
\* recorded sample is recognisable.
Signal(channel, t) == One * (1 + t + 1000 * channel)

InputSamples(channel) == {Signal(channel, Len(inlog[channel]))}

\* The channel whose block the process call under way is working on.
current_channel == IF frames = 0 THEN 0 ELSE done \div frames

NoRing == rb = RingBuffer_default /\ ring = [stage |-> "none"]
NoWindow == wc = [phase |-> "none"]

\* Zamerzika::new
new ==
    /\ sample_rate = 48000
    /\ note = None
    /\ input = [c \in Channels |-> resize(RingBuffer_default, MAX_WINDOW_SIZE, 0)]
    /\ output = [c \in Channels |-> resize(RingBuffer_default, MAX_WINDOW_SIZE, 0)]
    /\ window_size = 0
    /\ xfade_countdown = [c \in Channels |-> 0]

HostInit ==
    /\ panicked = FALSE
    /\ frames = 0
    /\ done = 0
    /\ last = [op |-> "new"]
    /\ mark = [events |-> <<>>, note_before |-> None, fed |-> FALSE,
               countdown_before |-> [c \in Channels |-> 0]]
    /\ inlog = [c \in Channels |-> <<>>]
    /\ outlog = [c \in Channels |-> <<>>]
    /\ ncalls = 0
    /\ nevents = 0

Init == new /\ HostInit /\ NoRing /\ NoWindow

Idle == ~panicked /\ frames = 0

\* set_sample_rate, recomputing the period of the note that is held.
set_sample_rate_retroactive(rate) ==
    /\ Idle
    /\ sample_rate' = rate
    /\ window_size' = IF note # None
                      THEN window_size_for(rate, note[1])
                      ELSE window_size
    /\ last' = [op |-> "set_sample_rate", rate |-> rate]
    /\ nevents' = nevents + 1
    /\ UNCHANGED <<note, input, output, xfade_countdown, panicked,
                   frames, done, mark, inlog, outlog, ncalls, rb, ring, wc>>

set_sample_rate(rate) ==
    /\ Idle
    /\ sample_rate' = rate
    /\ last' = [op |-> "set_sample_rate", rate |-> rate]
    /\ nevents' = IF rate = sample_rate THEN nevents ELSE nevents + 1
    /\ UNCHANGED <<note, input, output, window_size, xfade_countdown, panicked,
                   frames, done, mark, inlog, outlog, ncalls, rb, ring, wc>>

\* The host hands process a buffer of n frames per channel.
process(n) ==
    /\ Idle
    /\ frames' = n
    /\ done' = 0
    /\ last' = [op |-> "process", frames |-> n]
    /\ ncalls' = ncalls + 1
    /\ UNCHANGED <<engine, panicked, mark, inlog, outlog, nevents, rb, ring, wc>>

\* self.input[channel].write(sample), skipped while a note is held.
record_input_when_live(channel, sample) ==
    IF note # None THEN input[channel] ELSE write(input[channel], sample)

\* self.input[channel].write(sample)
record_input(channel, sample) == write(input[channel], sample)

\* Does process_sample read the output ring?
reads_output(channel) == note # None \/ xfade_countdown[channel] > 0

\* alpha taken after the countdown was decremented.
xfade_alpha_late(channel) == xfade_countdown[channel] - 1

\* alpha, as its numerator over XFADE_FRAMES
xfade_alpha(channel) == xfade_countdown[channel]

\* alpha * looped + (1.0 - alpha) * sample
mix(alpha, looped, sample) ==
    (alpha * looped + (XFADE_FRAMES - alpha) * sample) \div XFADE_FRAMES

\* What process_sample returns (its output-ring read is in bounds).
sample_result(channel, sample) ==
    IF note # None
    THEN read_result(output[channel])
    ELSE IF xfade_countdown[channel] > 0
         THEN mix(xfade_alpha(channel), read_result(output[channel]), sample)
         ELSE sample

\* The countdown decremented whether or not a note is held.
countdown_after_always(channel) ==
    IF xfade_countdown[channel] > 0
    THEN xfade_countdown[channel] - 1
    ELSE xfade_countdown[channel]

\* xfade_countdown[channel] after process_sample
countdown_after(channel) ==
    IF note = None /\ xfade_countdown[channel] > 0
    THEN xfade_countdown[channel] - 1
    ELSE xfade_countdown[channel]

\* One iteration of the loops of process: channel 0's whole block, then
\* channel 1's.
process_sample(sample) ==
    LET channel == current_channel
        ok == ~reads_output(channel)
                  \/ in_bounds(output[channel], output[channel].read_cursor)
        finished == done + 1 = CHANNELS * frames
    IN  /\ ~panicked
        /\ frames > 0
        /\ input' = [input EXCEPT ![channel] = record_input(channel, sample)]
        /\ inlog' = [inlog EXCEPT ![channel] = Append(@, sample)]
        /\ IF ok
           THEN /\ output' = IF reads_output(channel)
                             THEN [output EXCEPT ![channel] = read(@)]
                             ELSE output
                /\ xfade_countdown' =
                       [xfade_countdown EXCEPT ![channel] = countdown_after(channel)]
                /\ outlog' = [outlog EXCEPT ![channel] =
                                 Append(@, sample_result(channel, sample))]
                /\ last' = [op |-> "process_sample", channel |-> channel,
                            sample |-> sample,
                            result |-> sample_result(channel, sample),
                            alpha |-> IF note = None THEN xfade_alpha(channel) ELSE 0]
                /\ frames' = IF finished THEN 0 ELSE frames
                /\ done' = IF finished THEN 0 ELSE done + 1
                /\ UNCHANGED panicked
           ELSE /\ panicked' = TRUE
                /\ last' = [op |-> "panic", channel |-> channel]
                /\ UNCHANGED <<output, xfade_countdown, outlog, frames, done>>
        /\ UNCHANGED <<sample_rate, note, window_size, mark, ncalls, nevents,
                       rb, ring, wc>>

\* The engine's fields as one record, for the event loop.
Self ==
    [sample_rate |-> sample_rate, note |-> note, input |-> input,
     output |-> output, window_size |-> window_size,
     xfade_countdown |-> xfade_countdown]

\* out.write(in.read())
copy_sample(io) ==
    [inp |-> read(io.inp), out |-> write(io.out, read_result(io.inp))]

\* for _ in 0..n { out.write(in.read()) }
RECURSIVE copy_window(_, _)
copy_window(io, n) ==
    IF n = 0
    THEN io
    ELSE IF n = 1
         THEN copy_sample(io)
         ELSE CHOOSE r \in {copy_window(h, n - n \div 2) :
                              h \in {copy_window(io, n \div 2)}} : TRUE

captured(self, channel, copied) ==
    [self EXCEPT !.input[channel] = copied.inp,
                 !.output[channel] = smooth(copied.out, XFADE_FRAMES)]

\* The body of the loop, copying from wherever the input read cursor is.
capture_unaligned(self, channel) ==
    captured(self, channel,
             copy_window(
                 [inp |-> self.input[channel],
                  out |-> resize(self.output[channel], self.window_size, 0)],
                 self.window_size))

\* The body of the loop over the channels in the note-on arm.
capture(self, channel) ==
    captured(self, channel,
             copy_window(
                 [inp |-> open_window(self.input[channel], self.window_size),
                  out |-> resize(self.output[channel], self.window_size, 0)],
                 self.window_size))

RECURSIVE capture_all(_, _)
capture_all(self, channel) ==
    IF channel >= CHANNELS
    THEN self
    ELSE CHOOSE r \in {capture_all(s, channel + 1) :
                         s \in {capture(self, channel)}} : TRUE

\* The note-off arm, releasing whatever the pitch.
note_off_any_pitch(self, pitch) ==
    IF self.note # None
    THEN [self EXCEPT !.note = None,
                      !.xfade_countdown = [c \in Channels |-> XFADE_FRAMES]]
    ELSE self

\* The note-off arm, arming the countdown of channel 0 only.
note_off_first_channel(self, pitch) ==
    IF self.note # None /\ self.note[1] = pitch
    THEN [self EXCEPT !.note = None,
                      !.xfade_countdown[0] = XFADE_FRAMES]
    ELSE self

\* The note-off arm, arming only the countdowns that are at zero.
note_off_keeping_stale(self, pitch) ==
    IF self.note # None /\ self.note[1] = pitch
    THEN [self EXCEPT !.note = None,
                      !.xfade_countdown =
                          [c \in Channels |->
                              IF self.xfade_countdown[c] > 0
                              THEN self.xfade_countdown[c]
                              ELSE XFADE_FRAMES]]
    ELSE self

\* The 0x80 arm.
note_off(self, pitch) ==
    IF self.note # None /\ self.note[1] = pitch
    THEN [self EXCEPT !.note = None,
                      !.xfade_countdown = [c \in Channels |-> XFADE_FRAMES]]
    ELSE self

\* The 0x90 arm.
note_on(self, pitch) ==
    capture_all(
        [self EXCEPT !.note = Some(pitch),
                     !.window_size = window_size_for(self.sample_rate, pitch)],
        0)

\* One iteration of the loop over the events.
midi_event(self, event) ==
    IF event.kind = "Midi"
    THEN IF event.data[1] = NOTE_OFF
         THEN note_off(self, event.data[2])
         ELSE IF event.data[1] = NOTE_ON
              THEN note_on(self, event.data[2])
              ELSE self
    ELSE self

\* The loop over the events, last event first.
RECURSIVE apply_events_backwards(_, _)
apply_events_backwards(self, events) ==
    IF events = <<>>
    THEN self
    ELSE CHOOSE r \in {midi_event(s, Head(events)) :
                         s \in {apply_events_backwards(self, Tail(events))}} : TRUE

RECURSIVE apply_events(_, _)
apply_events(self, events) ==
    IF events = <<>>
    THEN self
    ELSE CHOOSE r \in {apply_events(s, Tail(events)) :
                         s \in {midi_event(self, Head(events))}} : TRUE

process_events(events) ==
    \E after \in {apply_events(Self, events)} :
        /\ Idle
        /\ sample_rate' = after.sample_rate
        /\ note' = after.note
        /\ input' = after.input
        /\ output' = after.output
        /\ window_size' = after.window_size
        /\ xfade_countdown' = after.xfade_countdown
        /\ last' = [op |-> "process_events", events |-> events]
        /\ IF after = Self
           THEN UNCHANGED <<mark, outlog, nevents>>
           ELSE /\ mark' = [events |-> events, note_before |-> note,
                            fed |-> outlog[0] # <<>>,
                            countdown_before |-> xfade_countdown]
                /\ outlog' = [c \in Channels |-> <<>>]
                /\ nevents' = nevents + 1
        /\ UNCHANGED <<panicked, frames, done, inlog, ncalls, rb, ring, wc>>

Next ==
    \/ \E rate \in Rates : nevents < MaxEvents /\ set_sample_rate(rate)
    \/ \E events \in Batches : nevents < MaxEvents /\ process_events(events)
    \/ \E n \in BlockSizes : ncalls < MaxCalls /\ process(n)
    \/ \E sample \in InputSamples(current_channel) : process_sample(sample)

Spec == Init /\ [][Next]_vars

NextLong ==
    \/ \E events \in LongBatches : nevents < MaxEvents /\ process_events(events)
    \/ \E n \in LongBlockSizes : ncalls < MaxCalls /\ process(n)
    \/ \E sample \in InputSamples(current_channel) : process_sample(sample)

SpecLong == Init /\ [][NextLong]_vars

(***************************************************************************)
(* SpecBatch: process_events calls that deliver one or two events, note    *)
(* events of one pitch and events of other kinds, around short blocks.     *)
(***************************************************************************)

MaxBatchCalls == 2
MaxBatchBlocks == 1

BatchPitches == {127}
BatchLengths == 1 .. 2

BatchEvents == NoteEvents(BatchPitches) \cup {MidiEvent(OTHER_STATUS, 7), SysExEvent}

EventBatches == UNION {[1 .. n -> BatchEvents] : n \in BatchLengths}

NextBatch ==
    \/ \E events \in EventBatches :
           nevents < MaxBatchCalls /\ process_events(events)
    \/ \E n \in BlockSizes : ncalls < MaxBatchBlocks /\ process(n)
    \/ \E sample \in InputSamples(current_channel) : process_sample(sample)

SpecBatch == Init /\ [][NextBatch]_vars

(***************************************************************************)
(* SpecRelease: note-ons and note-offs of one pitch around short blocks,   *)
(* long enough for a note to be taken up again during a release and        *)
(* released once more.                                                     *)
(***************************************************************************)

MaxReleaseEvents == 4
MaxReleaseBlocks == 3

ReleaseBatches == {<<e>> : e \in NoteEvents(BatchPitches)}

NextRelease ==
    \/ \E events \in ReleaseBatches :
           nevents < MaxReleaseEvents /\ process_events(events)
    \/ \E n \in BlockSizes : ncalls < MaxReleaseBlocks /\ process(n)
    \/ \E sample \in InputSamples(current_channel) : process_sample(sample)

SpecRelease == Init /\ [][NextRelease]_vars

(***************************************************************************)
(* RingBuffer on its own (SpecRing): one ring, resized, written, read and  *)
(* rewound in any order.  ring records what was done to it since its last  *)
(* resize.                                                                 *)
(***************************************************************************)

MaxLen == 3
MaxWrites == 4
MaxReads == 4
MaxResizes == 1

\* No engine has been constructed.
NoEngine ==
    /\ sample_rate = 0
    /\ note = None
    /\ input = [c \in Channels |-> RingBuffer_default]
    /\ output = [c \in Channels |-> RingBuffer_default]
    /\ window_size = 0
    /\ xfade_countdown = [c \in Channels |-> 0]

InitRing ==
    /\ NoEngine /\ HostInit /\ NoWindow
    /\ rb = RingBuffer_default
    /\ ring = [stage |-> "new", wlog |-> <<>>, rlog |-> <<>>, base |-> <<>>,
               win |-> None, before |-> RingBuffer_default, resizes |-> 0]

\* The values written are all different: the k-th write after the r-th
\* resize writes k + 10 * r.
NextValue == One * (Len(ring.wlog) + 1 + 10 * ring.resizes)

ring_resize(new_len, value) ==
    /\ ring.resizes < MaxResizes
    /\ rb' = resize(rb, new_len, value)
    /\ ring' = [stage |-> "writing", wlog |-> <<>>, rlog |-> <<>>,
                base |-> resize(rb, new_len, value).data,
                win |-> None, before |-> resize(rb, new_len, value),
                resizes |-> ring.resizes + 1]
    /\ UNCHANGED <<engine, host, wc>>

ring_write(sample) ==
    /\ in_bounds(rb, rb.write_cursor)
    /\ Len(ring.wlog) < MaxWrites
    /\ rb' = write(rb, sample)
    /\ ring' = [ring EXCEPT !.wlog = Append(@, sample),
                            !.win = None,
                            !.stage = IF @ = "writing" THEN "writing" ELSE "mixed"]
    /\ UNCHANGED <<engine, host, wc>>

ring_read ==
    /\ in_bounds(rb, rb.read_cursor)
    /\ Len(ring.rlog) < MaxReads
    /\ rb' = read(rb)
    /\ ring' = [ring EXCEPT !.rlog = Append(@, read_result(rb)),
                            !.stage = IF @ = "mixed" THEN "mixed" ELSE "reading"]
    /\ UNCHANGED <<engine, host, wc>>

\* The caller keeps window_size within the ring's length.
ring_open_window(window) ==
    /\ rb.len > 0
    /\ window <= rb.len
    /\ rb' = open_window(rb, window)
    /\ ring' = [ring EXCEPT !.win = Some(window),
                            !.rlog = <<>>,
                            !.before = rb,
                            !.stage = "mixed"]
    /\ UNCHANGED <<engine, host, wc>>

NextRing ==
    \/ \E new_len \in 1 .. MaxLen : ring_resize(new_len, 0)
    \/ \E sample \in {NextValue} : ring_write(sample)
    \/ ring_read
    \/ \E window \in 0 .. MaxLen : ring_open_window(window)

SpecRing == InitRing /\ [][NextRing]_vars

(***************************************************************************)
(* The window size on its own (SpecWindow): the computation of the note-on *)
(* arm and the index arithmetic of open_window on the input ring, for      *)
(* every pitch, at the usual sample rates, with and without overflow       *)
(* checks.                                                                 *)
(***************************************************************************)

MidiPitches == 0 .. 127
WindowRates == {44100, 48000, 96000, 192000}
WindowCursors == {0, 1, MAX_WINDOW_SIZE - 1}

InitWindow ==
    /\ NoEngine /\ HostInit /\ NoRing
    /\ \E rate \in WindowRates, pitch \in MidiPitches,
          end \in WindowCursors, checks \in BOOLEAN :
           wc = [phase |-> "input", rate |-> rate, pitch |-> pitch,
                 end |-> end, overflow_checks |-> checks]

\* window_size of the note-on arm, then open_window on an input ring whose
\* write cursor is at wc.end.
compute_window ==
    /\ wc.phase = "input"
    /\ \E w \in {window_size_for(wc.rate, wc.pitch)} :
       \E inp \in {[read_cursor |-> 0, write_cursor |-> wc.end,
                    len |-> MAX_WINDOW_SIZE, data |-> <<>>]} :
           wc' = [phase |-> "done", rate |-> wc.rate, pitch |-> wc.pitch,
                  end |-> wc.end, overflow_checks |-> wc.overflow_checks,
                  window_size |-> w,
                  outcome |-> IF open_window_overflows(inp, w) /\ wc.overflow_checks
                              THEN "panic" ELSE "opened",
                  start |-> open_window(inp, w).read_cursor]
    /\ UNCHANGED <<engine, host, rb, ring>>

NextWindow == compute_window

SpecWindow == InitWindow /\ [][NextWindow]_vars

(***************************************************************************)
(* smooth on its own (SpecSmooth): one call of smooth, with any depth, on  *)
(* a ring of any small length, any read cursor and any content.  The       *)
(* samples are multiples of One = 2^12, so that the few halvings of one    *)
(* call are exact, as they are on f64.                                     *)
(***************************************************************************)

MaxSmoothLen == 3
MaxDepth == 4

SmoothValues == {0, One, 3 * One}

InitSmooth ==
    /\ NoEngine /\ HostInit /\ NoWindow
    /\ \E len \in 1 .. MaxSmoothLen :
       \E cursor \in 0 .. len - 1, data \in [1 .. len -> SmoothValues] :
           rb = [read_cursor |-> cursor, write_cursor |-> 0,
                 len |-> len, data |-> data]
    /\ ring = [stage |-> "unsmoothed"]

ring_smooth(depth) ==
    /\ ring.stage = "unsmoothed"
    /\ rb' = smooth(rb, depth)
    /\ ring' = [stage |-> "smoothed", before |-> rb, depth |-> depth]
    /\ UNCHANGED <<engine, host, wc>>

NextSmooth == \E depth \in 0 .. MaxDepth : ring_smooth(depth)

SpecSmooth == InitSmooth /\ [][NextSmooth]_vars

(***************************************************************************)
(* Claims about the engine                                                 *)
(***************************************************************************)

\* The i-th sample ever given to channel c; the rings start filled with 0.0,
\* which is what a window reaching before the first sample reads.
Hist(c, i) == IF i >= 1 THEN inlog[c][i] ELSE 0

\* Samples given to channel c before the call mark records.
FedBefore(c) == Len(inlog[c]) - Len(outlog[c])

\* A note has been held since the call mark records.
FrozenSinceMark == ~panicked /\ mark.events # <<>> /\ note # None

\* No note has been held since the call mark records: it released one.
ReleasedSinceMark == ~panicked /\ mark.events # <<>> /\ note = None

C2_MismatchedNoteOffChangesNothing ==
    [][ \A p \in Pitches :
            (/\ last'.op = "process_events"
             /\ last'.events = <<NoteOff(p)>>
             /\ note # Some(p)) => UNCHANGED engine
      ]_vars

\* C2 witness: note-on p, note-on q, then note-off p, and q is still held.
C2_Witness ==
    \E p \in Pitches, q \in Pitches :
        /\ p # q
        /\ last.op = "process_events"
        /\ last.events = <<NoteOff(p)>>
        /\ mark.events = <<NoteOn(q)>>
        /\ mark.note_before = Some(p)
        /\ note = Some(q)

\* The sample the crossfade reads from the loop at the j-th call after the
\* release: the read cursor has advanced once per crossfaded call since.
LoopAtRelease(c, j) ==
    LET k == Len(outlog[c])
        len == output[c].len
        start == (output[c].read_cursor - min(k, XFADE_FRAMES)) % len
    IN  output[c].data[((start + j - 1) % len) + 1]

\* C3: the matching note-off clears the note and arms every countdown to
\* XFADE_FRAMES; with no further note event, the k-th process_sample call
\* on a channel (k = 1 .. 64) uses alpha = (65 - k) / 64 and takes one off
\* the countdown, and the 65th and later calls return the input sample
\* with the countdown at 0.
C3_ReleaseCrossfade ==
    ReleasedSinceMark =>
        \A c \in Channels :
            LET k == Len(outlog[c])
            IN  /\ xfade_countdown[c] = IF k <= XFADE_FRAMES
                                        THEN XFADE_FRAMES - k ELSE 0
                /\ \A j \in 1 .. k :
                       LET in == inlog[c][FedBefore(c) + j]
                       IN  outlog[c][j] =
                               IF j <= XFADE_FRAMES
                               THEN ((XFADE_FRAMES + 1 - j) * LoopAtRelease(c, j)
                                        + (j - 1) * in) \div XFADE_FRAMES
                               ELSE in
                /\ (last.op = "process_sample" /\ last.channel = c) =>
                       last.alpha = IF k <= XFADE_FRAMES
                                    THEN XFADE_FRAMES + 1 - k ELSE 0

\* C3 witness: both channels are 65 or more samples past the release of a
\* loop that holds recorded samples, and the last call passed its input
\* through.
C3_Witness ==
    /\ ReleasedSinceMark
    /\ \A c \in Channels :
           /\ Len(outlog[c]) > XFADE_FRAMES
           /\ xfade_countdown[c] = 0
           /\ \E i \in 1 .. output[c].len : output[c].data[i] # 0
    /\ last.op = "process_sample"
    /\ last.result = last.sample

\* C6: while a note is held and no further note event arrives, the outputs
\* of process_sample on a channel are the captured loop, whatever comes in:
\* periodic with period window_size, and at the loop positions that
\* smoothing leaves alone (from min(64, window_size) on), equal to the
\* corresponding one of the last window_size samples recorded before the
\* note-on.
C6_FrozenOutputIsTheLoop ==
    (FrozenSinceMark /\ window_size > 0) =>
        \A c \in Channels :
            \A j \in 1 .. Len(outlog[c]) :
                LET pos == (j - 1) % window_size
                IN  /\ outlog[c][j] = output[c].data[pos + 1]
                    /\ j > window_size =>
                           outlog[c][j] = outlog[c][j - window_size]
                    /\ pos >= min(XFADE_FRAMES, window_size) =>
                           outlog[c][j] =
                               Hist(c, FedBefore(c) - window_size + pos + 1)

\* C6 witness: a loop longer than the smoothed region, captured from a full
\* window of recorded samples, has been played for more than one period.
C6_Witness ==
    /\ FrozenSinceMark
    /\ window_size > XFADE_FRAMES
    /\ \E c \in Channels :
           /\ Len(outlog[c]) > window_size
           /\ FedBefore(c) >= window_size

RingValid(r) ==
    /\ r.len = Len(r.data)
    /\ r.read_cursor >= 0 /\ r.read_cursor < r.len
    /\ r.write_cursor >= 0 /\ r.write_cursor < r.len

\* C8: in every reachable state every ring's cursors are in [0, len) and
\* len is the length of data, so no read or write ever fails.
C8_RingsAlwaysValid ==
    /\ ~panicked
    /\ \A c \in Channels : RingValid(input[c]) /\ RingValid(output[c])

\* The loop a note-on builds for channel c out of the samples recorded up
\* to it: the last window_size of them, smoothed from slot 0.
ExpectedLoop(c) ==
    smooth_loop([i \in 1 .. window_size |->
                    Hist(c, FedBefore(c) - window_size + i)],
                window_size,
                window_size + min(XFADE_FRAMES, window_size),
                window_size)

\* C9: a note-on, also one received while a note is held, captures the loop
\* from the live input recorded up to it (process_sample records in every
\* state): the output ring holds the last window_size recorded samples,
\* smoothed, and nothing of the previous loop.
C9_NoteOnCapturesLiveHistory ==
    FrozenSinceMark =>
        \A c \in Channels :
            /\ output[c].len = window_size
            /\ output[c].data = ExpectedLoop(c)

\* C9 witness: a second note-on arrived while a note was held and samples
\* had been processed under that note.
C9_Witness ==
    /\ FrozenSinceMark
    /\ \E q \in Pitches : mark.events = <<NoteOn(q)>>
    /\ mark.note_before # None
    /\ mark.fed
    /\ window_size > 0

\* C10: set_sample_rate changes only sample_rate; window_size changes, and
\* is computed from the rate then set, only at a note-on.
C10_SampleRateTakesEffectAtNoteOn ==
    [][ /\ last'.op = "set_sample_rate" =>
               /\ sample_rate' = last'.rate
               /\ UNCHANGED <<note, input, output, window_size, xfade_countdown>>
        /\ \A p \in Pitches :
               (last'.op = "process_events" /\ last'.events = <<NoteOn(p)>>) =>
                   window_size' = window_size_for(sample_rate, p)
        /\ window_size' # window_size =>
               /\ last'.op = "process_events"
               /\ \E p \in Pitches : last'.events = <<NoteOn(p)>>
      ]_vars

\* C10 witness: the rate was changed under a held note, whose loop keeps the
\* period computed from the old rate.
C10_Witness ==
    /\ last.op = "set_sample_rate"
    /\ note # None
    /\ window_size > 0
    /\ window_size # window_size_for(sample_rate, note[1])

(***************************************************************************)
(* Claims about RingBuffer and the window size                             *)
(***************************************************************************)

\* C4: for 1 <= window_size <= len, after at least window_size writes and
\* then open_window(window_size), the next window_size reads return the
\* last window_size values written, oldest first, wherever the write
\* cursor is; open_window leaves write_cursor and the data unchanged.
C4_OpenWindowReplaysLastWrites ==
    (ring.stage # "none" /\ ring.win # None) =>
        LET window == ring.win[1]
            n == Len(ring.wlog)
        IN  /\ rb.write_cursor = ring.before.write_cursor
            /\ rb.data = ring.before.data
            /\ (window >= 1 /\ n >= window) =>
                   \A i \in 1 .. min(Len(ring.rlog), window) :
                       ring.rlog[i] = ring.wlog[n - window + i]

\* C4 witness: a window as long as the ring, straddling the wrap point, was
\* opened and read back whole.
C4_Witness ==
    /\ ring.stage # "none"
    /\ ring.win = Some(rb.len)
    /\ rb.len >= 2
    /\ rb.write_cursor # 0
    /\ Len(ring.wlog) > rb.len
    /\ Len(ring.rlog) = rb.len

\* C5 as stated: n writes then reads on a freshly resized ring: the reads
\* return the n written values in write order and go on repeating those n
\* values cyclically, for every n.
C5_ReadsCycleThroughTheWrites ==
    (ring.stage = "reading" /\ Len(ring.wlog) >= 1) =>
        \A i \in 1 .. Len(ring.rlog) :
            ring.rlog[i] = ring.wlog[((i - 1) % Len(ring.wlog)) + 1]

\* The writes, among the n made, that went to slot pos of a ring of length len.
WritesTo(pos, n, len) == {j \in 1 .. n : (j - 1) % len = pos}

Max(S) == CHOOSE x \in S : \A y \in S : y <= x

\* C5 amended: the reads return the ring's len slots cyclically from slot
\* 0, each slot holding the last value written to it or, if none of the n
\* writes reached it, what resize left there.  So the first n reads are the
\* n written values in order when n <= len, and further reads repeat them
\* when n = len: the period is len, not n.
C5_ReadsCycleThroughTheSlots ==
    ring.stage = "reading" =>
        \A i \in 1 .. Len(ring.rlog) :
            LET pos == (i - 1) % rb.len
                js == WritesTo(pos, Len(ring.wlog), rb.len)
            IN  ring.rlog[i] = IF js = {}
                               THEN ring.base[pos + 1]
                               ELSE ring.wlog[Max(js)]

\* C5 witness: fewer writes than slots, and more reads than writes.
C5_Witness ==
    /\ ring.stage = "reading"
    /\ Len(ring.wlog) >= 1
    /\ Len(ring.wlog) < rb.len
    /\ Len(ring.rlog) > Len(ring.wlog)

\* C7: for every pitch in 0 .. 127, at whatever sample rate, the window size
\* computed at note-on never exceeds MAX_WINDOW_SIZE, so end + len -
\* window_size in open_window never goes below zero.
C7_WindowFitsTheInputRing ==
    wc.phase = "done" =>
        /\ wc.window_size <= MAX_WINDOW_SIZE
        /\ wc.end + MAX_WINDOW_SIZE - wc.window_size >= 0
        /\ wc.outcome = "opened"

(***************************************************************************)
(* Claims about smooth                                                     *)
(***************************************************************************)

\* The circular predecessor of position i in a ring of length len.
Pred(i, len) == (i + len - 1) % len

\* data[r] - data[p] of ring b, r its read cursor and p the predecessor.
Seam(b) ==
    b.data[b.read_cursor + 1] - b.data[Pred(b.read_cursor, b.len) + 1]

\* C11 as stated: for every length >= 1 and every depth >= 1, smooth(depth)
\* halves data[r] - data[p]; with depth 0 it leaves the buffer unchanged.
C11_SmoothHalvesTheSeam ==
    ring.stage = "smoothed" =>
        /\ ring.depth >= 1 => 2 * Seam(rb) = Seam(ring.before)
        /\ ring.depth = 0 => rb = ring.before

\* C11 amended: smooth(depth) with depth >= 1 sets data[r] to the mean of
\* the old data[r] and data[p].  It halves data[r] - data[p] when depth is
\* below the length, because p is then left alone (and trivially when the
\* length is 1, where p = r).  With depth >= length >= 2 the pass wraps and
\* blends p last, with its own blended predecessor q, and the seam becomes
\* half of (old data[r] - new data[q]).  Depth 0 changes nothing.
C11_SmoothHalvesTheSeamBelowLength ==
    ring.stage = "smoothed" =>
        LET old == ring.before
            r == rb.read_cursor
            p == Pred(r, rb.len)
            q == Pred(p, rb.len)
        IN  /\ ring.depth >= 1 =>
                   2 * rb.data[r + 1] = old.data[r + 1] + old.data[p + 1]
            /\ (ring.depth >= 1 /\ (ring.depth < rb.len \/ rb.len = 1)) =>
                   2 * Seam(rb) = Seam(old)
            /\ (ring.depth >= rb.len /\ rb.len >= 2) =>
                   2 * Seam(rb) = old.data[r + 1] - rb.data[q + 1]
            /\ ring.depth = 0 => rb = old

\* C11 witness: a seam that was not zero, halved by a pass shorter than the
\* ring.
C11_Witness ==
    /\ ring.stage = "smoothed"
    /\ ring.depth >= 1
    /\ ring.depth < rb.len
    /\ Seam(ring.before) # 0
    /\ 2 * Seam(rb) = Seam(ring.before)

\* C13: smooth(depth) rewrites only the min(depth, len) consecutive circular
\* positions from read_cursor on, each becoming the mean of its own value
\* and of its predecessor's value at that moment (the old one for the first
\* position, the blended one for the others); no other sample, no cursor
\* and not the length changes.
C13_SmoothRewritesOnlyTheSeamRegion ==
    ring.stage = "smoothed" =>
        LET old == ring.before
            len == old.len
            d == min(ring.depth, len)
        IN  /\ rb.read_cursor = old.read_cursor
            /\ rb.write_cursor = old.write_cursor
            /\ rb.len = len
            /\ Len(rb.data) = len
            /\ \A k \in 0 .. len - 1 :
                   LET pos == (old.read_cursor + k) % len
                       before == IF k = 0
                                 THEN old.data[Pred(pos, len) + 1]
                                 ELSE rb.data[Pred(pos, len) + 1]
                   IN  rb.data[pos + 1] =
                           IF k < d
                           THEN half(old.data[pos + 1] + before)
                           ELSE old.data[pos + 1]

\* C13 witness: a pass of two or more positions, shorter than the ring, that
\* runs over the end of the data and changed it.
C13_Witness ==
    /\ ring.stage = "smoothed"
    /\ ring.depth >= 2
    /\ ring.depth < rb.len
    /\ rb.read_cursor + ring.depth > rb.len
    /\ rb.data # ring.before.data

(***************************************************************************)
(* Claims about the engine, continued                                      *)
(***************************************************************************)

\* C12: right after a note-on of pitch p with computed window size W, for
\* every channel: the note held is p, the output ring has length W and both
\* its cursors at 0, the input ring's read cursor is at its write cursor,
\* and the input ring's write cursor and content are as before the note-on.
C12_StateAfterNoteOn ==
    [][ \A p \in Pitches :
            (last'.op = "process_events" /\ last'.events = <<NoteOn(p)>>) =>
                /\ note' = Some(p)
                /\ window_size' = window_size_for(sample_rate, p)
                /\ \A c \in Channels :
                       /\ output'[c].len = window_size'
                       /\ Len(output'[c].data) = window_size'
                       /\ output'[c].write_cursor = 0
                       /\ output'[c].read_cursor = 0
                       /\ input'[c].read_cursor = input'[c].write_cursor
                       /\ input'[c].write_cursor = input[c].write_cursor
                       /\ input'[c].data = input[c].data
                       /\ input'[c].len = input[c].len
      ]_vars

\* C12 witness: a note-on has just captured a loop of recorded samples, the
\* input write cursors being off zero.
C12_Witness ==
    /\ last.op = "process_events"
    /\ \E p \in Pitches : last.events = <<NoteOn(p)>>
    /\ note # None
    /\ window_size > 0
    /\ \A c \in Channels :
           /\ input[c].write_cursor > 0
           /\ input[c].read_cursor = input[c].write_cursor
           /\ output[c].data[1] # 0

\* C14: at block boundaries (no process call under way) the channels are in
\* lockstep: equal countdowns, equal output-ring lengths and read cursors,
\* equal input-ring write cursors.  The channels differ only inside a
\* process call, which works through channel 0's block before channel 1's.
C14_ChannelsInLockstep ==
    Idle =>
        \A c \in Channels, d \in Channels :
            /\ xfade_countdown[c] = xfade_countdown[d]
            /\ output[c].len = output[d].len
            /\ output[c].read_cursor = output[d].read_cursor
            /\ input[c].write_cursor = input[d].write_cursor

\* C14 witness: a block has just been processed during a release, both
\* channels part of the way through the crossfade and through the loop.
C14_Witness ==
    /\ Idle
    /\ last.op = "process_sample"
    /\ note = None
    /\ \A c \in Channels :
           /\ xfade_countdown[c] > 0
           /\ xfade_countdown[c] < XFADE_FRAMES
           /\ output[c].read_cursor > 0
           /\ input[c].write_cursor > 0

\* C15: process_sample on channel c advances input ring c's write cursor by
\* one; it advances output ring c's read cursor by one, modulo window_size,
\* when a note is held or countdown[c] > 0, and not otherwise; it writes to
\* no output ring, changes neither the note nor window_size, and leaves the
\* other channel's rings and countdown alone.  A note-off leaves the output
\* read cursors where they are.
C15_PerSampleEffect ==
    [][ /\ last'.op = "process_sample" =>
               LET c == last'.channel
               IN  /\ input'[c].write_cursor =
                          (input[c].write_cursor + 1) % input[c].len
                   /\ output'[c].read_cursor =
                          IF note # None \/ xfade_countdown[c] > 0
                          THEN (output[c].read_cursor + 1) % window_size
                          ELSE output[c].read_cursor
                   /\ \A d \in Channels :
                          /\ output'[d].data = output[d].data
                          /\ output'[d].len = output[d].len
                          /\ output'[d].write_cursor = output[d].write_cursor
                          /\ d # c => /\ input'[d] = input[d]
                                      /\ output'[d] = output[d]
                                      /\ xfade_countdown'[d] = xfade_countdown[d]
                   /\ note' = note
                   /\ window_size' = window_size
        /\ \A p \in Pitches :
               (last'.op = "process_events" /\ last'.events = <<NoteOff(p)>>) =>
                   output' = output
      ]_vars

\* C15 witness: the second or a later sample of a release was crossfaded on
\* channel 1, the loop carrying on from where the frozen playback stopped.
C15_Witness ==
    /\ last.op = "process_sample"
    /\ last.channel = 1
    /\ note = None
    /\ last.alpha > 0
    /\ last.alpha < XFADE_FRAMES
    /\ mark.fed
    /\ output[1].read_cursor # Len(outlog[1]) % window_size

\* Is the event a note-on or a note-off?
IsNoteEvent(event) ==
    event.kind = "Midi" /\ event.data[1] \in {NOTE_OFF, NOTE_ON}

\* The engine after the events of a batch of one or two, given one at a
\* time, each to the engine the one before left.
OneByOne(self, events) ==
    IF events = <<>>
    THEN self
    ELSE IF Len(events) = 1
         THEN midi_event(self, events[1])
         ELSE midi_event(midi_event(self, events[1]), events[2])

\* C16: the events of a batch are applied in delivery order, each to the
\* state the previous one left; only note-ons and note-offs change state, so
\* the other events can be dropped from a batch; and the batch note-on p,
\* note-off p ends released, with a freshly captured loop of p and both
\* countdowns at XFADE_FRAMES.
C16_BatchAppliedInOrder ==
    [][ \A events \in EventBatches :
            (last'.op = "process_events" /\ last'.events = events) =>
                /\ Self' = OneByOne(Self, events)
                /\ Self' = OneByOne(Self, SelectSeq(events, IsNoteEvent))
                /\ (\A i \in 1 .. Len(events) : ~IsNoteEvent(events[i])) =>
                       UNCHANGED engine
                /\ \A p \in BatchPitches :
                       events = <<NoteOn(p), NoteOff(p)>> =>
                           /\ note' = None
                           /\ window_size' = window_size_for(sample_rate, p)
                           /\ \A c \in Channels :
                                  /\ xfade_countdown'[c] = XFADE_FRAMES
                                  /\ output'[c].len = window_size'
                                  /\ output'[c].data = ExpectedLoop(c)'
      ]_vars

\* C16 witness: the batch note-on p, note-off p arrived after samples had
\* been recorded and left a loop of them, released.
C16_Witness ==
    /\ last.op = "process_events"
    /\ \E p \in BatchPitches : last.events = <<NoteOn(p), NoteOff(p)>>
    /\ mark.events = last.events
    /\ mark.fed
    /\ note = None
    /\ \A c \in Channels :
           /\ xfade_countdown[c] = XFADE_FRAMES
           /\ output[c].len = window_size
           /\ output[c].data[window_size] # 0

\* C17: a note-on that arrives with a countdown in 1 .. 63 leaves a stale
\* countdown that does nothing while the note is held (process_sample
\* returns the pure output-ring read and does not count down), and the
\* matching note-off sets every countdown to exactly XFADE_FRAMES, so the
\* release that follows is full length: its k-th sample has alpha
\* (65 - k) / 64.
C17_ReleaseAlwaysFullLength ==
    [][ /\ (/\ note # None
            /\ \E c \in Channels : xfade_countdown[c] \in 1 .. XFADE_FRAMES - 1
            /\ last'.op = "process_sample") =>
               /\ last'.result = read_result(output[last'.channel])
               /\ xfade_countdown' = xfade_countdown
        /\ \A p \in BatchPitches :
               (/\ note = Some(p)
                /\ last'.op = "process_events"
                /\ last'.events = <<NoteOff(p)>>) =>
                   /\ note' = None
                   /\ \A c \in Channels : xfade_countdown'[c] = XFADE_FRAMES
        /\ (ReleasedSinceMark' /\ mark'.note_before # None) =>
               /\ \A c \in Channels :
                      xfade_countdown'[c] = XFADE_FRAMES - Len(outlog'[c])
               /\ last'.op = "process_sample" =>
                      last'.alpha = XFADE_FRAMES + 1 - Len(outlog'[last'.channel])
      ]_vars

\* C17 witness: a note taken up with both countdowns stale in 1 .. 63 was
\* played, then released, and the first sample of the release was mixed with
\* alpha 64 / 64.
C17_Witness ==
    /\ note = None
    /\ mark.note_before # None
    /\ mark.fed
    /\ \A c \in Channels :
           mark.countdown_before[c] \in 1 .. XFADE_FRAMES - 1
    /\ last.op = "process_sample"
    /\ last.alpha = XFADE_FRAMES
    /\ xfade_countdown[last.channel] = XFADE_FRAMES - 1

\* Does the batch hold a note-on?
HasNoteOn(events) ==
    \E i \in 1 .. Len(events) :
        events[i].kind = "Midi" /\ events[i].data[1] = NOTE_ON

\* C18: the input rings keep the length MAX_WINDOW_SIZE they were built
\* with, and their content changes only by the write of a process_sample
\* call, one slot of the processed channel at a time; the content and the
\* length of an output ring change only at a note-on, so that from one
\* note-on to the next each output ring holds the loop the first one
\* captured, through process_sample calls, note-offs and set_sample_rate.
C18_RingsChangeOnlyWhereExpected ==
    [][ \A c \in Channels :
            /\ input'[c].len = MAX_WINDOW_SIZE
            /\ Len(input'[c].data) = MAX_WINDOW_SIZE
            /\ input'[c].data # input[c].data =>
                   /\ last'.op \in {"process_sample", "panic"}
                   /\ last'.channel = c
                   /\ inlog'[c] # inlog[c]
                   /\ input'[c].data =
                          [input[c].data EXCEPT ![input[c].write_cursor + 1] =
                              inlog'[c][Len(inlog'[c])]]
            /\ (output'[c].data # output[c].data
                    \/ output'[c].len # output[c].len) =>
                   /\ last'.op = "process_events"
                   /\ HasNoteOn(last'.events)
      ]_vars

\* C18 witness: a loop was captured, played, released and crossfaded, the
\* sample rate was then changed, and the output rings still hold the loop.
C18_Witness ==
    /\ last.op = "set_sample_rate"
    /\ note = None
    /\ \E p \in Pitches : mark.events = <<NoteOff(p)>>
    /\ mark.fed
    /\ window_size > 0
    /\ window_size # window_size_for(sample_rate, mark.note_before[1])
    /\ \A c \in Channels :
           /\ outlog[c] # <<>>
           /\ output[c].len = window_size
           /\ output[c].data[window_size] # 0
           /\ input[c].len = MAX_WINDOW_SIZE

====
